---- MODULE Spec2Model ----
(***************************************************************************)
(* A model of src/fdiff/dataloaders/datamodules.py: the sample dataset     *)
(* (DiffusionDataset), the base data module (Datamodule) and its six       *)
(* dataset adapters, over a model of the namespaced data directory.        *)
(*                                                                         *)
(* Tensors are records [shape, data] with data[n][t][c] (1-based), their   *)
(* entries integers; Python indices are 0-based and are shifted where they *)
(* are used.  Real numbers that arithmetic produces are exact rationals    *)
(* <<num, den>> in lowest terms with den > 0; <<0, 0>> is NaN and          *)
(* <<1, 0>>, <<-1, 0>> are +inf, -inf.  A standard deviation s >= 0 and a  *)
(* standardized entry z are held as the rational sign(z) * z^2 (the signed *)
(* square is a bijection of the reals, so equality is kept).               *)
(***************************************************************************)
EXTENDS Integers, Sequences, FiniteSets, TLC

VARIABLES
    cfg,        \* the data module's configuration (constructor arguments)
    fs,         \* the namespaced directory <data_dir>/<dataset_name>
    X_train,    \* self.X_train
    y_train,    \* self.y_train  (<<>> is None, <<v>> is v)
    X_test,     \* self.X_test
    y_test,     \* self.y_test
    built,      \* the batch iterable built last from the module's current tensors
    item,       \* the record returned by the last __getitem__
    checked,    \* MIMIC-III: the raw-file assertion of download_data has passed
    last        \* what the last call did (history)

vars == <<cfg, fs, X_train, y_train, X_test, y_test, built, item, checked, last>>

\* ------------------------------------------------------------------ bounds

\* Largest max_len a SyntheticDatamodule is configured with.
MaxLen == 2
\* Largest num_samples a SyntheticDatamodule is configured with.
MaxSamples == 2
\* Fixed-point precision of the floating-point ranking score of MIMIC-III.
Scale == 100

\* ------------------------------------------------------- program constants

ECG_N_FEATS == 187
MIMIC_N_FEATS_DEFAULT == 40
NASDAQ_LEN == 252
NASDAQ_CHANNELS == 6
NASA_LEN == 251
NASA_CHANNELS == 4
DROUGHTS_PERIOD == 365
DROUGHTS_REMOVED_short == {4, 5, 6, 7}
DROUGHTS_REMOVED == {4, 5, 6, 7, 9}
NASA_KEPT == <<0, 1, 3, 4>>

\* ------------------------------------------------------------- arithmetic

None == <<>>
Some(v) == <<v>>

NaN == <<0, 0>>

Abs(i) == IF i < 0 THEN -i ELSE i
Sign(i) == IF i < 0 THEN -1 ELSE IF i > 0 THEN 1 ELSE 0

RECURSIVE Gcd(_, _)
Gcd(a, b) == IF b = 0 THEN a ELSE Gcd(b, a % b)

\* The rational num/den in lowest terms; a zero denominator gives NaN or +-inf.
Rat(num, den) ==
    IF den = 0 THEN <<Sign(num), 0>>
    ELSE LET g == Gcd(Abs(num), Abs(den))
             s == Sign(den)
         IN  <<(s * num) \div g, (s * den) \div g>>

RECURSIVE SumRange(_, _, _)
\* f[lo] + ... + f[hi], by halving
SumRange(f, lo, hi) ==
    IF lo > hi THEN 0
    ELSE IF lo = hi THEN f[lo]
    ELSE LET mid == (lo + hi) \div 2
         IN  SumRange(f, lo, mid) + SumRange(f, mid + 1, hi)
\* f[1] + ... + f[n]
SumTo(f, n) == SumRange(f, 1, n)

RECURSIVE ISqrtIn(_, _, _)
\* floor(sqrt(v)), known to lie in lo..hi-1, by bisection
ISqrtIn(v, lo, hi) ==
    IF hi - lo <= 1 THEN lo
    ELSE LET mid == (lo + hi) \div 2
         IN  IF mid * mid <= v THEN ISqrtIn(v, mid, hi) ELSE ISqrtIn(v, lo, mid)
\* floor(sqrt(v)) for v >= 0
ISqrt(v) == ISqrtIn(v, 0, v + 1)

\* ---------------------------------------------------------------- tensors

\* torch.Tensor(): the empty one-dimensional tensor.
EmptyTensor == [shape |-> <<0>>, data |-> <<>>]

Rank(X) == Len(X.shape)
\* x.shape[1:]
Shape1(X) == SubSeq(X.shape, 2, Len(X.shape))

\* An entry of the content that generator `seed` produces.
Gen(seed, n, t, c) == ((seed * 3 + n * n + 2 * t + c * (c + seed)) % 5) - 2

\* A (N, L, C) tensor with the content of generator `seed`.
Tensor3(N, L, C, seed) ==
    [shape |-> <<N, L, C>>,
     data  |-> [n \in 1..N |-> [t \in 1..L |-> [c \in 1..C |-> Gen(seed, n, t, c)]]]]

\* x[:, :, idx] for a list idx of 0-based channel indices: defined when every
\* index is below the channel count (IndexError otherwise).
CanSelect(X, idx) == \A j \in 1..Len(idx) : idx[j] < X.shape[3]
SelectChannels(X, idx) ==
    [shape |-> <<X.shape[1], X.shape[2], Len(idx)>>,
     data  |-> [n \in 1..X.shape[1] |-> [t \in 1..X.shape[2] |->
                  [j \in 1..Len(idx) |-> X.data[n][t][idx[j] + 1]]]]]

\* x[:, ::2, :]: every second time step, from the first.
StrideTime2(X) ==
    LET L2 == (X.shape[2] + 1) \div 2
    IN  [shape |-> <<X.shape[1], L2, X.shape[3]>>,
         data  |-> [n \in 1..X.shape[1] |-> [t \in 1..L2 |-> X.data[n][2 * t - 1]]]]

\* x[:, :, :-1]: all channels but the last (a slice: never an IndexError).
DropLastChannel(X) ==
    LET C1 == IF X.shape[3] = 0 THEN 0 ELSE X.shape[3] - 1
    IN  [shape |-> <<X.shape[1], X.shape[2], C1>>,
         data  |-> [n \in 1..X.shape[1] |-> [t \in 1..X.shape[2] |->
                      [c \in 1..C1 |-> X.data[n][t][c]]]]]

\* x.unsqueeze(2) of a (N, L) table: a trailing channel dimension of size 1.
Unsqueeze2(rows, N, L) ==
    [shape |-> <<N, L, 1>>,
     data  |-> [n \in 1..N |-> [t \in 1..L |-> <<rows[n][t]>>]]]

\* ------------------------------------------------------------- file system

\* The namespaced directory: whether it exists, and its files by relative path.
NoDir == [dir |-> FALSE, files |-> <<>>]

Exists(f, path) == path \in DOMAIN f.files
Read(f, path) == f.files[path]
\* The directory with `path` written (created or overwritten).
Put(f, path, content) ==
    [dir |-> TRUE,
     files |-> [p \in DOMAIN f.files \cup {path} |->
                  IF p = path THEN content ELSE f.files[p]]]
\* os.makedirs(self.data_dir)
MakeDirs(f) == [f EXCEPT !.dir = TRUE]

\* File contents: a saved tensor, a truncated save, a raw source file, a CSV table.
\* torch.save of the (N, L, C) tensor that generator `seed` produced.
PtFile(N, L, C, seed) == [kind |-> "pt", N |-> N, L |-> L, C |-> C, seed |-> seed]
CorruptFile == [kind |-> "corrupt"]
RawFile == [kind |-> "raw"]
CsvFile(rows) == [kind |-> "csv", rows |-> rows]

RawPath(c) ==
    IF c.dataset = "mimiciii" THEN "all_hourly_data.h5" ELSE "raw.zip"
TrainPath(c) ==
    CASE c.dataset = "ecg" -> "mitbih_train.csv"
      [] c.dataset = "synthetic" -> "train.csv"
      [] c.dataset = "nasa" ->
            IF c.subdataset = "charge" THEN "charge/X_train.pt"
            ELSE "discharge/X_train.pt"
      [] OTHER -> "X_train.pt"
TestPath(c) ==
    CASE c.dataset = "ecg" -> "mitbih_test.csv"
      [] c.dataset = "synthetic" -> "test.csv"
      [] c.dataset = "nasa" ->
            IF c.subdataset = "charge" THEN "charge/X_test.pt"
            ELSE "discharge/X_test.pt"
      [] OTHER -> "X_test.pt"

\* ----------------------------------------------------------- configuration

Datasets == {"ecg", "synthetic", "mimiciii", "nasdaq", "nasa", "droughts"}
CacheBacked == {"mimiciii", "nasdaq", "nasa", "droughts"}
Kaggle == {"ecg", "nasdaq", "nasa", "droughts"}

\* The contents an external generator or fetch may produce.
Seeds == {1, 2}

DefaultConfig(d) ==
    [dataset |-> d, fourier_transform |-> FALSE, standardize |-> FALSE,
     max_len |-> 1, num_samples |-> 1, n_feats |-> MIMIC_N_FEATS_DEFAULT,
     subdataset |-> "charge", remove_outlier_feature |-> TRUE]

\* The constructor arguments the model draws for adapter d.
AdapterConfigs(d) ==
    CASE d = "synthetic" ->
            {[DefaultConfig(d) EXCEPT !.max_len = l, !.num_samples = n] :
                l \in 1..MaxLen, n \in 1..MaxSamples}
      [] d = "mimiciii" ->
            {[DefaultConfig(d) EXCEPT !.n_feats = k] : k \in {1, MIMIC_N_FEATS_DEFAULT}}
      [] d = "nasa" ->
            {[DefaultConfig(d) EXCEPT !.subdataset = s, !.remove_outlier_feature = r] :
                s \in {"charge", "discharge"}, r \in BOOLEAN}
      [] OTHER -> {DefaultConfig(d)}
\* The transform flags are drawn with the adapter arguments; the adapters
\* whose tensors are long (NASDAQ, NASA, drought) run with both flags off or
\* both on.
Flags(d) ==
    IF d \in {"nasdaq", "nasa", "droughts"} THEN {<<FALSE, FALSE>>, <<TRUE, TRUE>>}
    ELSE BOOLEAN \X BOOLEAN
Configs(d) ==
    {[c EXCEPT !.fourier_transform = fl[1], !.standardize = fl[2]] :
        c \in AdapterConfigs(d), fl \in Flags(d)}

\* ----------------------------------------------------------------- history

NoCall ==
    [op |-> "__init__", outcome |-> "ok", err |-> "",
     dir_found |-> FALSE, mkdir |-> FALSE, download |-> FALSE,
     cache_found |-> FALSE, preprocess |-> FALSE,
     fs_changed |-> FALSE, X_train_changed |-> FALSE, X_test_changed |-> FALSE,
     y_changed |-> FALSE, stored_changed |-> FALSE, access_changed |-> FALSE]

\* The module's four tensors as one record.
Self == [X_train |-> X_train, y_train |-> y_train, X_test |-> X_test, y_test |-> y_test]

\* A call's result: how it ended and the tensors it leaves in the module.
Returned(s) == [outcome |-> "ok", err |-> "", self |-> s]
Raised(e, s) == [outcome |-> "raised", err |-> e, self |-> s]

\* The module's state after a setup call that ended as r, on the directory f.
Finish(call, r, f) ==
    /\ X_train' = r.self.X_train
    /\ y_train' = r.self.y_train
    /\ X_test' = r.self.X_test
    /\ y_test' = r.self.y_test
    /\ fs' = f
    /\ built' = None
    /\ item' = None
    /\ last' = [call EXCEPT !.outcome = r.outcome, !.err = r.err,
                            !.fs_changed = (f # fs),
                            !.X_train_changed = (r.self.X_train # X_train),
                            !.X_test_changed = (r.self.X_test # X_test),
                            !.y_changed = (r.self.y_train # y_train \/ r.self.y_test # y_test)]
    /\ UNCHANGED <<cfg, checked>>

\* ------------------------------------------------- Datamodule.__init__

\* The state after construction, on a machine that holds no data yet.
Init ==
    /\ \E d \in Datasets : cfg \in Configs(d)
    /\ fs = NoDir
    /\ X_train = EmptyTensor
    /\ y_train = None
    /\ X_test = EmptyTensor
    /\ y_test = None
    /\ built = None
    /\ item = None
    /\ checked = FALSE
    /\ last = NoCall

\* A later run constructs the data module of the same dataset anew, with other
\* adapter arguments (the transform flags as before), on the directory the
\* earlier runs left.
NewDatamodule ==
    /\ last.op # "__init__"
    /\ cfg' \in {[c EXCEPT !.fourier_transform = cfg.fourier_transform,
                           !.standardize = cfg.standardize] :
                   c \in AdapterConfigs(cfg.dataset)}
    /\ X_train' = EmptyTensor
    /\ y_train' = None
    /\ X_test' = EmptyTensor
    /\ y_test' = None
    /\ built' = None
    /\ item' = None
    /\ last' = NoCall
    /\ UNCHANGED <<fs, checked>>

\* ------------------------------------------------------ fetching the data

\* What a fetch did to the directory and how it ended.
Fetched(f) == [outcome |-> "ok", err |-> "", fs |-> f, checked |-> FALSE]
FetchFailed(e, f) == [outcome |-> "raised", err |-> e, fs |-> f, checked |-> FALSE]

\* The MIT-BIH tables of the heartbeat archive: one row per recording, the
\* 187 samples and then the label.
ECG_table(rows, seed) ==
    [n \in 1..rows |-> [t \in 1..(ECG_N_FEATS + 1) |->
        IF t <= ECG_N_FEATS THEN Gen(seed, n, t, 1) ELSE (n + seed) % 5]]

\* kaggle.api.authenticate(); kaggle.api.dataset_download_files(..., unzip=True):
\* the archive's files appear in the directory, or the call raises.
kaggle_download(c, f) ==
    {FetchFailed("KaggleError", f)} \cup
    IF c.dataset = "ecg"
    THEN {Fetched(Put(Put(Put(f, RawPath(c), RawFile),
                          TrainPath(c), CsvFile(ECG_table(3, seed))),
                      TestPath(c), CsvFile(ECG_table(2, seed)))) : seed \in Seeds}
    ELSE {Fetched(Put(f, RawPath(c), RawFile))}

\* An entry of the sinusoids np.sin(timesteps * frequency + phase) drawn by `seed`.
Sinusoid(seed, n, t) == ((seed + n * (t + seed) + t * t) % 3) - 1

\* SyntheticDatamodule.download_data: 2 * num_samples rows of max_len steps,
\* the first num_samples to train.csv and the rest to test.csv.
Synthetic_download_data(c, f) ==
    {LET n_generated == 2 * c.num_samples
         X == [n \in 1..n_generated |-> [t \in 1..c.max_len |-> Sinusoid(seed, n, t)]]
         X_tr == SubSeq(X, 1, c.num_samples)
         X_te == SubSeq(X, c.num_samples + 1, n_generated)
     IN  Fetched(Put(Put(f, "train.csv", CsvFile(X_tr)), "test.csv", CsvFile(X_te)))
     : seed \in Seeds}

\* MIMICIIIDatamodule.download_data: nothing is fetched; the raw file must be there.
MIMICIII_download_data(c, f) ==
    IF Exists(f, "all_hourly_data.h5")
    THEN {[Fetched(f) EXCEPT !.checked = TRUE]}
    ELSE {FetchFailed("AssertionError", f)}

\* self.download_data(), by adapter.
download_data(c, f) ==
    CASE c.dataset \in Kaggle -> kaggle_download(c, f)
      [] c.dataset = "synthetic" -> Synthetic_download_data(c, f)
      [] c.dataset = "mimiciii" -> MIMICIII_download_data(c, f)

\* prepare_data without its existence check: every call creates and fetches.
prepare_data_unguarded ==
    /\ \E r \in download_data(cfg, MakeDirs(fs)) :
            /\ fs' = r.fs
            /\ checked' = (checked \/ r.checked)
            /\ last' = [NoCall EXCEPT !.op = "prepare_data", !.dir_found = fs.dir,
                                      !.mkdir = TRUE,
                                      !.download = TRUE, !.outcome = r.outcome,
                                      !.err = r.err, !.fs_changed = (r.fs # fs)]
    /\ built' = None
    /\ item' = None
    /\ UNCHANGED <<cfg, X_train, y_train, X_test, y_test>>

\* Datamodule.prepare_data
prepare_data ==
    /\ IF fs.dir
       THEN /\ last' = [NoCall EXCEPT !.op = "prepare_data", !.dir_found = TRUE]
            /\ UNCHANGED <<fs, checked>>
       ELSE \E r \in download_data(cfg, MakeDirs(fs)) :
            /\ fs' = r.fs
            /\ checked' = (checked \/ r.checked)
            /\ last' = [NoCall EXCEPT !.op = "prepare_data", !.mkdir = TRUE,
                                      !.download = TRUE, !.outcome = r.outcome,
                                      !.err = r.err, !.fs_changed = (r.fs # fs)]
    /\ built' = None
    /\ item' = None
    /\ UNCHANGED <<cfg, X_train, y_train, X_test, y_test>>

\* The user follows the instruction of MIMICIIIDatamodule.download_data's error
\* and puts the MIMIC-Extract file into the namespaced directory.
PlaceRawData ==
    /\ cfg.dataset = "mimiciii"
    /\ ~Exists(fs, "all_hourly_data.h5")
    /\ fs' = Put(fs, "all_hourly_data.h5", RawFile)
    /\ last' = [NoCall EXCEPT !.op = "place_raw_data", !.fs_changed = TRUE]
    /\ UNCHANGED <<cfg, X_train, y_train, X_test, y_test, built, item, checked>>

\* ------------------------------------------------------------ CSV adapters

\* pd.read_csv(path, header=None).values: the table, every line a row.
CanReadCsv(f, path) ==
    /\ Exists(f, path)
    /\ Read(f, path).kind = "csv"
    /\ Len(Read(f, path).rows) > 0
\* pd.read_csv(path): the first line names the columns, the others are the rows.
ReadCsvHeader(f, path) == Tail(Read(f, path).rows)
NCols(f, path) == Len(Read(f, path).rows[1])

\* df.iloc[:, :k].values as a (N, min(k, columns), 1) tensor (unsqueeze(2)).
FirstColumns(rows, ncols, k) ==
    LET w == IF ncols < k THEN ncols ELSE k
    IN  Unsqueeze2([n \in 1..Len(rows) |-> SubSeq(rows[n], 1, w)], Len(rows), w)
\* df.iloc[:, k].values (k 0-based)
Column(rows, k) == [n \in 1..Len(rows) |-> rows[n][k + 1]]

\* ECGDatamodule.setup with subsample_localization = smooth_frequency = False
\* (the defaults): both tables are read and sliced before any field is assigned.
ECG_results(c, f, s) ==
    IF ~CanReadCsv(f, TrainPath(c)) THEN {Raised("FileNotFoundError", s)}
    ELSE IF NCols(f, TrainPath(c)) <= ECG_N_FEATS THEN {Raised("IndexError", s)}
    ELSE IF ~CanReadCsv(f, TestPath(c)) THEN {Raised("FileNotFoundError", s)}
    ELSE IF NCols(f, TestPath(c)) <= ECG_N_FEATS THEN {Raised("IndexError", s)}
    ELSE LET tr == ReadCsvHeader(f, TrainPath(c))
             te == ReadCsvHeader(f, TestPath(c))
         IN  {Returned([X_train |-> FirstColumns(tr, NCols(f, TrainPath(c)), ECG_N_FEATS),
                        y_train |-> Some(Column(tr, ECG_N_FEATS)),
                        X_test  |-> FirstColumns(te, NCols(f, TestPath(c)), ECG_N_FEATS),
                        y_test  |-> Some(Column(te, ECG_N_FEATS))])}

ECG_setup ==
    /\ cfg.dataset = "ecg"
    /\ \E r \in ECG_results(cfg, fs, Self) :
          Finish([NoCall EXCEPT !.op = "setup"], r, fs)

\* SyntheticDatamodule.setup
Synthetic_results(c, f, s) ==
    IF ~CanReadCsv(f, TrainPath(c)) THEN {Raised("FileNotFoundError", s)}
    ELSE IF ~CanReadCsv(f, TestPath(c)) THEN {Raised("FileNotFoundError", s)}
    ELSE LET tr == Read(f, TrainPath(c)).rows
             te == Read(f, TestPath(c)).rows
         IN  {Returned([X_train |-> Unsqueeze2(tr, Len(tr), Len(tr[1])),
                        y_train |-> None,
                        X_test  |-> Unsqueeze2(te, Len(te), Len(te[1])),
                        y_test  |-> None])}

Synthetic_setup ==
    /\ cfg.dataset = "synthetic"
    /\ \E r \in Synthetic_results(cfg, fs, Self) :
          Finish([NoCall EXCEPT !.op = "setup"], r, fs)

\* ---------------------------------------------------- cache-backed adapters

\* The file pairs (X_train.pt, X_test.pt) an external preprocessing routine
\* may save: well-formed pairs and the corrupted or mismatched ones of spec
\* section 7(b).
MIMICIII_caches ==
    {<<PtFile(2, 2, 3, 1), PtFile(1, 2, 3, 2)>>,
     <<PtFile(2, 2, 3, 2), PtFile(1, 3, 3, 1)>>,
     <<PtFile(2, 1, 3, 1), PtFile(1, 1, 2, 2)>>}
NASDAQ_caches ==
    {<<PtFile(1, NASDAQ_LEN, NASDAQ_CHANNELS, 1), PtFile(1, NASDAQ_LEN, NASDAQ_CHANNELS, 2)>>,
     <<PtFile(2, 2, NASDAQ_CHANNELS, 1), PtFile(1, 2, NASDAQ_CHANNELS, 2)>>,
     <<PtFile(1, NASDAQ_LEN, NASDAQ_CHANNELS, 1), PtFile(1, 2, NASDAQ_CHANNELS, 2)>>}
NASA_charge_caches ==
    {<<PtFile(1, 2 * NASA_LEN - 1, 5, 1), PtFile(1, 2 * NASA_LEN, 5, 2)>>,
     <<PtFile(1, 3, 5, 1), PtFile(1, 2, 4, 2)>>}
NASA_discharge_caches ==
    {<<PtFile(2, 3, 5, 1), PtFile(1, 3, 5, 2)>>,
     <<PtFile(1, 3, 5, 1), PtFile(1, 2, 4, 2)>>}
Droughts_caches ==
    {<<PtFile(1, DROUGHTS_PERIOD, 11, 1), PtFile(1, DROUGHTS_PERIOD, 11, 2)>>,
     <<PtFile(1, 0, 11, 1), PtFile(1, 0, 12, 2)>>,
     <<PtFile(1, 0, 10, 1), PtFile(1, DROUGHTS_PERIOD, 10, 2)>>,
     <<PtFile(2, 0, 6, 1), PtFile(1, 0, 6, 2)>>,
     <<PtFile(1, 1, 11, 1), PtFile(1, 1, 11, 2)>>,
     <<PtFile(1, 0, 3, 1), PtFile(1, 0, 2, 2)>>}
Caches(c) ==
    CASE c.dataset = "mimiciii" -> MIMICIII_caches
      [] c.dataset = "nasdaq" -> NASDAQ_caches
      [] c.dataset = "nasa" ->
            IF c.subdataset = "charge" THEN NASA_charge_caches
            ELSE NASA_discharge_caches
      [] c.dataset = "droughts" -> Droughts_caches

\* The pairs whose saving the model lets be cut short.
Interrupted(c) ==
    CASE c.dataset = "mimiciii" -> {<<PtFile(2, 2, 3, 1), PtFile(1, 2, 3, 2)>>}
      [] c.dataset = "nasdaq" -> {<<PtFile(2, 2, NASDAQ_CHANNELS, 1), PtFile(1, 2, NASDAQ_CHANNELS, 2)>>}
      [] c.dataset = "nasa" -> {<<PtFile(2, 3, 5, 1), PtFile(1, 3, 5, 2)>>}
      [] c.dataset = "droughts" -> {<<PtFile(2, 0, 6, 1), PtFile(1, 0, 6, 2)>>}

\* mimic_preprocess, nasdaq_preprocess, nasa_preprocess, droughts_preprocess
\* (data_dir, random_seed): reads the raw source and saves X_train.pt and
\* X_test.pt; it may raise before saving, or be cut short after the first file
\* or in the middle of the second (spec section 5).
preprocess(c, f) ==
    {[raised |-> TRUE, fs |-> f]} \cup
    IF ~Exists(f, RawPath(c)) THEN {}
    ELSE {[raised |-> FALSE,
           fs |-> Put(Put(f, TrainPath(c), p[1]), TestPath(c), p[2])] :
             p \in Caches(c)}
         \cup {[raised |-> TRUE, fs |-> Put(f, TrainPath(c), p[1])] :
                 p \in Interrupted(c)}
         \cup {[raised |-> TRUE,
                fs |-> Put(Put(f, TrainPath(c), p[1]), TestPath(c), CorruptFile)] :
                 p \in Interrupted(c)}

\* The existence check with `and` for `or`: preprocessing only when both
\* files are missing.
PreprocessIfBothMissing(c, f) ==
    IF ~Exists(f, TrainPath(c)) /\ ~Exists(f, TestPath(c))
    THEN {[ran |-> TRUE, raised |-> o.raised, fs |-> o.fs] : o \in preprocess(c, f)}
    ELSE {[ran |-> FALSE, raised |-> FALSE, fs |-> f]}

\* The head of every cache-backed setup: the preprocessing routine runs when
\* X_train.pt or X_test.pt does not exist.
PreprocessIfMissing(c, f) ==
    IF ~Exists(f, TrainPath(c)) \/ ~Exists(f, TestPath(c))
    THEN {[ran |-> TRUE, raised |-> o.raised, fs |-> o.fs] : o \in preprocess(c, f)}
    ELSE {[ran |-> FALSE, raised |-> FALSE, fs |-> f]}

\* torch.load(path) returns the saved tensor, or raises.
Loadable(f, path) == Exists(f, path) /\ Read(f, path).kind = "pt"
Load(f, path) ==
    LET d == Read(f, path) IN Tensor3(d.N, d.L, d.C, d.seed)

\* X.std(0)[t][c] in fixed point (Scale units): the unbiased standard
\* deviation over the samples; -1 stands for NaN (fewer than two samples).
StdFixed(X, t, c) ==
    LET N == X.shape[1]
        S == SumTo([n \in 1..N |-> X.data[n][t][c]], N)
        Q == SumTo([n \in 1..N |-> X.data[n][t][c] * X.data[n][t][c]], N)
    IN  IF N < 2 THEN -1
        ELSE ISqrt(((N * Q - S * S) * Scale * Scale) \div (N * (N - 1)))

\* X.std(0).mean(0)[c]: the deviation of channel c (0-based) averaged over the
\* time steps; -1 stands for NaN (no two samples, or no time step).
ChannelScore(X, c) ==
    LET L == X.shape[2]
    IN  IF X.shape[1] < 2 \/ L = 0 THEN -1
        ELSE SumTo([t \in 1..L |-> StdFixed(X, t, c + 1)], L) \div L

\* The orders of 0..C-1 as sequences.
Orders(C) ==
    {p \in [1..C -> 0..(C - 1)] : \A i, j \in 1..C : i # j => p[i] # p[j]}

\* torch.argsort(score, descending=True)[:k]: the sort is not stable, so equal
\* scores may come in any order.
TopFeats(X, k) ==
    LET C == X.shape[3]
        m == IF k < C THEN k ELSE C
    IN  {SubSeq(p, 1, m) :
           p \in {q \in Orders(C) :
                    \A i \in 1..C : \A j \in 1..C :
                       i < j => ChannelScore(X, q[i]) >= ChannelScore(X, q[j])}}

\* MIMICIIIDatamodule.setup after the loads: keep the n_feats channels of
\* highest variance, first in X_train and then in X_test.
MIMICIII_prune(c, s) ==
    {LET s1 == [s EXCEPT !.X_train = SelectChannels(s.X_train, top)]
     IN  IF ~CanSelect(s.X_test, top) THEN Raised("IndexError", s1)
         ELSE Returned([s1 EXCEPT !.X_test = SelectChannels(s.X_test, top)])
     : top \in TopFeats(s.X_train, c.n_feats)}

\* NASDAQDatamodule.setup after the loads: both tensors are (., 252, 6), and
\* the last feature (volume) is dropped.
NASDAQ_prune(c, s) ==
    IF ~(Shape1(s.X_train) = Shape1(s.X_test)
         /\ Shape1(s.X_test) = <<NASDAQ_LEN, NASDAQ_CHANNELS>>)
    THEN {Raised("AssertionError", s)}
    ELSE {Returned([s EXCEPT !.X_train = DropLastChannel(s.X_train),
                             !.X_test = DropLastChannel(s.X_test)])}

\* NASADatamodule.setup after the loads: for the charge subdataset with
\* remove_outlier_feature, every second time step and the features 0, 1, 3, 4
\* are kept, and the result is checked to be (., 251, 4).
NASA_prune(c, s) ==
    IF ~(c.remove_outlier_feature /\ c.subdataset = "charge") THEN {Returned(s)}
    ELSE IF ~CanSelect(s.X_train, NASA_KEPT) THEN {Raised("IndexError", s)}
    ELSE LET s1 == [s EXCEPT !.X_train = SelectChannels(StrideTime2(s.X_train), NASA_KEPT)]
         IN  IF ~CanSelect(s.X_test, NASA_KEPT) THEN {Raised("IndexError", s1)}
             ELSE LET s2 == [s1 EXCEPT !.X_test =
                                SelectChannels(StrideTime2(s.X_test), NASA_KEPT)]
                  IN  IF /\ s2.X_train.shape[3] = s2.X_test.shape[3]
                         /\ s2.X_test.shape[3] = NASA_CHANNELS
                         /\ s2.X_train.shape[2] = NASA_LEN
                         /\ s2.X_test.shape[2] = NASA_LEN
                      THEN {Returned(s2)}
                      ELSE {Raised("AssertionError", s2)}

RECURSIVE KeptFrom(_, _)
\* [i for i in range(from, C) if i not in {4, 5, 6, 7, 9}]
KeptFrom(from, C) ==
    IF from >= C THEN <<>>
    ELSE IF from \in DROUGHTS_REMOVED THEN KeptFrom(from + 1, C)
    ELSE <<from>> \o KeptFrom(from + 1, C)
\* feats of USDroughtsDatamodule.setup
DroughtsFeats(X) == KeptFrom(0, X.shape[3])

\* USDroughtsDatamodule.setup after the loads: the features correlated with
\* T2M are removed, then the sequence lengths and channel counts are checked.
Droughts_prune(c, s) ==
    LET feats == DroughtsFeats(s.X_train)
        s1 == [s EXCEPT !.X_train = SelectChannels(s.X_train, feats)]
    IN  IF ~CanSelect(s.X_test, feats) THEN {Raised("IndexError", s1)}
        ELSE LET s2 == [s1 EXCEPT !.X_test = SelectChannels(s.X_test, feats)]
             IN  IF /\ s2.X_train.shape[2] % DROUGHTS_PERIOD = s2.X_test.shape[2] % DROUGHTS_PERIOD
                    /\ s2.X_test.shape[2] % DROUGHTS_PERIOD = 0
                    /\ s2.X_train.shape[3] = s2.X_test.shape[3]
                    /\ s2.X_test.shape[3] = Len(feats)
                 THEN {Returned(s2)}
                 ELSE {Raised("AssertionError", s2)}

\* The pruning and checks that follow the loads, by adapter.
Prune(c, s) ==
    CASE c.dataset = "mimiciii" -> MIMICIII_prune(c, s)
      [] c.dataset = "nasdaq" -> NASDAQ_prune(c, s)
      [] c.dataset = "nasa" -> NASA_prune(c, s)
      [] c.dataset = "droughts" -> Droughts_prune(c, s)

\* The loads and the pruning on local variables, the fields assigned only on
\* success.
LoadAndPrune_atomic(c, f, s) ==
    IF ~Loadable(f, TrainPath(c)) \/ ~Loadable(f, TestPath(c))
    THEN {Raised("LoadError", s)}
    ELSE {IF r.outcome = "ok" THEN r ELSE Raised(r.err, s) :
            r \in Prune(c, [s EXCEPT !.X_train = Load(f, TrainPath(c)),
                                     !.X_test = Load(f, TestPath(c))])}

\* self.X_train = torch.load(...); self.X_test = torch.load(...); then the
\* adapter's pruning and checks on the module holding both.
LoadAndPrune(c, f, s) ==
    IF ~Loadable(f, TrainPath(c)) THEN {Raised("LoadError", s)}
    ELSE LET s1 == [s EXCEPT !.X_train = Load(f, TrainPath(c))]
         IN  IF ~Loadable(f, TestPath(c)) THEN {Raised("LoadError", s1)}
             ELSE Prune(c, [s1 EXCEPT !.X_test = Load(f, TestPath(c))])

\* The body of a cache-backed setup after its existence check.
CachedSetup ==
    \E pre \in PreprocessIfMissing(cfg, fs) :
      \E r \in (IF pre.raised THEN {Raised("PreprocessError", Self)}
                ELSE LoadAndPrune(cfg, pre.fs, Self)) :
         Finish([NoCall EXCEPT !.op = "setup",
                               !.cache_found = (Exists(fs, TrainPath(cfg))
                                                /\ Exists(fs, TestPath(cfg))),
                               !.preprocess = pre.ran], r, pre.fs)

MIMICIII_setup ==
    /\ cfg.dataset = "mimiciii"
    /\ CachedSetup

NASDAQ_setup ==
    /\ cfg.dataset = "nasdaq"
    /\ CachedSetup

NASA_setup ==
    /\ cfg.dataset = "nasa"
    /\ CachedSetup

USDroughts_setup ==
    /\ cfg.dataset = "droughts"
    /\ CachedSetup

\* ------------------------------------------------------- DiffusionDataset

\* dft of src/fdiff/utils/fourier.py: a deterministic invertible linear
\* transform of every sequence along its time axis that keeps the shape.  For
\* sequences of up to two steps it is the unnormalised discrete Fourier
\* transform (x1 + x2, x1 - x2); for longer ones the model keeps the sum as the
\* first coefficient and takes the differences to the first step as the others.
dft(X) ==
    LET L == X.shape[2]
    IN  [shape |-> X.shape,
         data  |-> [n \in 1..X.shape[1] |-> [t \in 1..L |-> [c \in 1..X.shape[3] |->
                      IF t = 1
                      THEN SumTo([u \in 1..L |-> X.data[n][u][c]], L)
                      ELSE X.data[n][1][c] - X.data[n][t][c]]]]]
\* dft reads x.size(1): it needs a batch of sequences.
CanDft(X) == Rank(X) = 3

\* Sum and sum of squares over the samples of entry (t, c).
SumOver(X, t, c) == SumTo([n \in 1..X.shape[1] |-> X.data[n][t][c]], X.shape[1])
SquaresOver(X, t, c) ==
    SumTo([n \in 1..X.shape[1] |-> X.data[n][t][c] * X.data[n][t][c]], X.shape[1])

\* X.mean(dim=(0, 1)) stretched over the time steps: one value per channel.
MeanPerChannel(X) ==
    IF Rank(X) = 1 THEN [shape |-> <<>>, data |-> NaN]
    ELSE [shape |-> Shape1(X),
          data  |-> [t \in 1..X.shape[2] |-> [c \in 1..X.shape[3] |->
                       Rat(SumTo([u \in 1..X.shape[2] |-> SumOver(X, u, c)], X.shape[2]),
                           X.shape[1] * X.shape[2])]]]

\* X.mean(dim=0): the mean over the samples, one value per (time step, channel);
\* NaN without samples.  Of the empty one-dimensional tensor it is the scalar NaN.
MeanDim0(X) ==
    IF Rank(X) = 1 THEN [shape |-> <<>>, data |-> NaN]
    ELSE [shape |-> Shape1(X),
          data  |-> [t \in 1..X.shape[2] |-> [c \in 1..X.shape[3] |->
                       Rat(SumOver(X, t, c), X.shape[1])]]]

\* X.std(dim=0): the unbiased standard deviation over the samples, one value
\* per (time step, channel), held as its square; NaN with fewer than two samples.
StdDim0(X) ==
    IF Rank(X) = 1 THEN [shape |-> <<>>, data |-> NaN]
    ELSE LET N == X.shape[1]
         IN  [shape |-> Shape1(X),
              data  |-> [t \in 1..X.shape[2] |-> [c \in 1..X.shape[3] |->
                           IF N < 2 THEN NaN
                           ELSE Rat(N * SquaresOver(X, t, c)
                                      - SumOver(X, t, c) * SumOver(X, t, c),
                                    N * (N - 1))]]]

\* DiffusionDataset.__init__ with X_ref ignored: the statistics of X itself.
DiffusionDataset_own_stats(X, y, fourier_transform, standardize, X_ref) ==
    LET X1 == IF fourier_transform THEN dft(X) ELSE X
    IN  [X |-> X1, y |-> y, standardize |-> standardize,
         feature_mean |-> MeanDim0(X1), feature_std |-> StdDim0(X1)]

\* DiffusionDataset.__init__ (X_ref: None, or Some(tensor)); defined when
\* CanBuild holds.
CanBuild(X, fourier_transform, X_ref) ==
    fourier_transform => (CanDft(X) /\ (X_ref # None => CanDft(X_ref[1])))
DiffusionDataset(X, y, fourier_transform, standardize, X_ref) ==
    LET X1 == IF fourier_transform THEN dft(X) ELSE X
        ref == IF X_ref = None THEN X1
               ELSE IF fourier_transform THEN dft(X_ref[1])
               ELSE X_ref[1]
    IN  [X |-> X1, y |-> y, standardize |-> standardize,
         feature_mean |-> MeanDim0(ref), feature_std |-> StdDim0(ref)]

\* DiffusionDataset.__len__
DatasetLen(ds) == ds.X.shape[1]

\* (x - m) / s for an integer x, a mean m and a deviation s held as its square:
\* the signed square of the quotient.
StandardizeEntry(x, m, s) ==
    IF m = NaN \/ s = NaN THEN NaN
    ELSE LET d == x * m[2] - m[1]
         IN  Rat(Sign(d) * d * d * s[2], m[2] * m[2] * s[1])

\* Broadcasting of two (rows, columns) shapes: a size of 1 stretches.
CanBroadcast(a, b) ==
    /\ Len(a) = 2 /\ Len(b) = 2
    /\ \A k \in 1..2 : a[k] = b[k] \/ a[k] = 1 \/ b[k] = 1
BroadcastShape(a, b) == [k \in 1..2 |-> IF a[k] = 1 THEN b[k] ELSE a[k]]
At(M, t, c) ==
    M.data[IF M.shape[1] = 1 THEN 1 ELSE t][IF M.shape[2] = 1 THEN 1 ELSE c]

\* (x - self.feature_mean) / self.feature_std for the (L, C) sample x.
Standardized(x, mean, std) ==
    LET sh == BroadcastShape(BroadcastShape(x.shape, mean.shape), std.shape)
    IN  [shape |-> sh,
         data  |-> [t \in 1..sh[1] |-> [c \in 1..sh[2] |->
                      StandardizeEntry(At(x, t, c), At(mean, t, c), At(std, t, c))]]]
CanStandardize(x, mean, std) ==
    /\ CanBroadcast(x.shape, mean.shape)
    /\ CanBroadcast(BroadcastShape(x.shape, mean.shape), std.shape)

\* self.X[index] (index 0-based)
Sample(ds, index) == [shape |-> Shape1(ds.X), data |-> ds.X.data[index + 1]]

\* DiffusionDataset.__getitem__; defined when CanGetItem holds.
CanGetItem(ds, index) ==
    ds.standardize => CanStandardize(Sample(ds, index), ds.feature_mean, ds.feature_std)
GetItem(ds, index) ==
    [X |-> IF ds.standardize
           THEN Standardized(Sample(ds, index), ds.feature_mean, ds.feature_std)
           ELSE Sample(ds, index),
     y |-> IF ds.y # None THEN Some(ds.y[1][index + 1]) ELSE None]

\* ------------------------------------------------------ the batch iterables

\* DataLoader(dataset, batch_size, shuffle, collate_fn)
DataLoader(split, dataset, shuffle) ==
    [split |-> split, dataset |-> dataset, shuffle |-> shuffle]

\* The dataset each split's loader is built on.
TrainSet(s, c) ==
    DiffusionDataset(s.X_train, s.y_train, c.fourier_transform, c.standardize, None)
\* The test dataset handed the module's standardize flag.
TestSet_with_flag(s, c) ==
    DiffusionDataset(s.X_test, s.y_test, c.fourier_transform, c.standardize, None)
TestSet(s, c) ==
    DiffusionDataset(s.X_test, s.y_test, c.fourier_transform, FALSE, None)
ValSet(s, c) ==
    DiffusionDataset(s.X_test, s.y_test, c.fourier_transform, c.standardize,
                     Some(s.X_train))

\* Datamodule.feature_mean_and_std
feature_mean_and_std(s, c) ==
    <<TrainSet(s, c).feature_mean, TrainSet(s, c).feature_std>>

\* How a loader call ended: it raises when the transform cannot be applied.
LoaderCall(op, ok) ==
    [NoCall EXCEPT !.op = op, !.outcome = IF ok THEN "ok" ELSE "raised",
                   !.err = IF ok THEN "" ELSE "IndexError"]

\* Datamodule.train_dataloader
train_dataloader ==
    /\ built' = (IF CanBuild(X_train, cfg.fourier_transform, None)
                 THEN Some(DataLoader("train", TrainSet(Self, cfg), TRUE))
                 ELSE None)
    /\ last' = LoaderCall("train_dataloader", built' # None)
    /\ item' = None
    /\ UNCHANGED <<cfg, fs, X_train, y_train, X_test, y_test, checked>>

\* Datamodule.test_dataloader
test_dataloader ==
    /\ built' = (IF CanBuild(X_test, cfg.fourier_transform, None)
                 THEN Some(DataLoader("test", TestSet(Self, cfg), FALSE))
                 ELSE None)
    /\ last' = LoaderCall("test_dataloader", built' # None)
    /\ item' = None
    /\ UNCHANGED <<cfg, fs, X_train, y_train, X_test, y_test, checked>>

\* Datamodule.val_dataloader
val_dataloader ==
    /\ built' = (IF CanBuild(X_test, cfg.fourier_transform, Some(X_train))
                 THEN Some(DataLoader("val", ValSet(Self, cfg), FALSE))
                 ELSE None)
    /\ last' = LoaderCall("val_dataloader", built' # None)
    /\ item' = None
    /\ UNCHANGED <<cfg, fs, X_train, y_train, X_test, y_test, checked>>

\* The host framework asks the loader built last for the sample at `index`.
getitem ==
    /\ built # None
    /\ \E index \in 0..(DatasetLen(built[1].dataset) - 1) :
         LET ds == built[1].dataset
             ok == CanGetItem(ds, index)
         IN  /\ item' = (IF ok THEN Some([index |-> index, data |-> GetItem(ds, index)])
                         ELSE None)
             /\ last' = [NoCall EXCEPT !.op = "__getitem__",
                                       !.outcome = IF ok THEN "ok" ELSE "raised",
                                       !.err = IF ok THEN "" ELSE "RuntimeError"]
    /\ UNCHANGED <<cfg, fs, X_train, y_train, X_test, y_test, built, checked>>

\* data["X"] = self.X[index] shares the storage of self.X; the standardizing
\* arithmetic replaces it by a newly allocated tensor.
IsView(ds) == ~ds.standardize
\* self.X = X is the very tensor the module handed over, unless
\* dft(X).detach() replaced it.
SharesModuleTensor(c) == ~c.fourier_transform
\* sample.zero_() on a (L, C) sample
Zeroed(x) == [t \in DOMAIN x |-> [c \in DOMAIN x[t] |-> 0]]

\* A consumer overwrites in place the "X" of the record the last __getitem__
\* returned (here with zeros) and lets the record and the loader go.  The
\* write reaches every tensor that shares the record's storage.
modify_in_place ==
    /\ item # None
    /\ LET ds == built[1].dataset
           index == item[1].index
           X2 == IF IsView(ds)
                 THEN [ds.X EXCEPT !.data[index + 1] = Zeroed(@)]
                 ELSE ds.X
           ds2 == [ds EXCEPT !.X = X2]
           reaches == IsView(ds) /\ SharesModuleTensor(cfg)
       IN  /\ X_train' = (IF reaches /\ built[1].split = "train" THEN X2 ELSE X_train)
           /\ X_test' = (IF reaches /\ built[1].split # "train" THEN X2 ELSE X_test)
           /\ last' = [NoCall EXCEPT !.op = "modify_in_place",
                                     !.X_train_changed = (X_train' # X_train),
                                     !.X_test_changed = (X_test' # X_test),
                                     !.stored_changed = (X2 # ds.X),
                                     !.access_changed =
                                         (GetItem(ds2, index) # GetItem(ds, index))]
    /\ built' = None
    /\ item' = None
    /\ UNCHANGED <<cfg, fs, y_train, y_test, checked>>

Next ==
    \/ NewDatamodule
    \/ prepare_data
    \/ PlaceRawData
    \/ ECG_setup
    \/ Synthetic_setup
    \/ MIMICIII_setup
    \/ NASDAQ_setup
    \/ NASA_setup
    \/ USDroughts_setup
    \/ train_dataloader
    \/ test_dataloader
    \/ val_dataloader
    \/ getitem
    \/ modify_in_place

Spec == Init /\ [][Next]_vars

\* ------------------------------------------------------------------ claims

\* C1: prepare_data is idempotent.  download_data is invoked only by a call
\* that found the namespaced directory absent and created it first, and a call
\* that finds the directory (hence every call made once data exists in it)
\* neither invokes download_data nor changes the file system.
C1_PrepareDataIdempotent ==
    last.op = "prepare_data" =>
        /\ last.download => (~last.dir_found /\ last.mkdir /\ fs.dir)
        /\ last.dir_found => (~last.download /\ ~last.mkdir /\ ~last.fs_changed
                              /\ last.outcome = "ok")
        /\ (~last.download /\ DOMAIN fs.files # {}) => last.dir_found

\* A prepare_data call made while the fetched data is there: a no-op.
C1_Witness ==
    /\ last.op = "prepare_data"
    /\ last.dir_found
    /\ ~last.download
    /\ Exists(fs, TrainPath(cfg))

\* C2: for the cache-backed adapters, setup invokes the external preprocessing
\* routine if and only if X_train.pt or X_test.pt is missing from the cache
\* directory when it is called, so a setup run while both exist never invokes it.
C2_PreprocessIffCacheMissing ==
    (last.op = "setup" /\ cfg.dataset \in CacheBacked) =>
        (last.preprocess <=> ~last.cache_found)

\* A setup that found both cache files, did not preprocess, and returned.
C2_Witness ==
    /\ last.op = "setup"
    /\ cfg.dataset \in CacheBacked
    /\ last.cache_found
    /\ ~last.preprocess
    /\ last.outcome = "ok"

\* C3: for the MIMIC-III adapter, whenever all_hourly_data.h5 is absent from
\* the directory, prepare_data fails with the descriptive error, and the
\* preprocessing routine is never reached without that check having passed.
C3_RawFileChecked ==
    cfg.dataset = "mimiciii" =>
        /\ (last.op = "prepare_data" /\ ~Exists(fs, RawPath(cfg))) =>
               (last.outcome = "raised" /\ last.err = "AssertionError")
        /\ last.preprocess => checked

\* C4: for every adapter and every content of the loaded tensors, a setup that
\* returns leaves X_train.shape[1:] equal to X_test.shape[1:].
C4_SplitsAgree ==
    (last.op = "setup" /\ last.outcome = "ok") => Shape1(X_train) = Shape1(X_test)

\* What a tensor read from the file at `path` looks like: three-dimensional,
\* one entry per stored sample, no longer and no wider than what is stored.
ReadFrom(X, path) ==
    /\ Exists(fs, path)
    /\ Rank(X) = 3
    /\ LET d == Read(fs, path)
       IN  CASE d.kind = "pt" ->
                  X.shape[1] = d.N /\ X.shape[2] <= d.L /\ X.shape[3] <= d.C
             [] d.kind = "csv" ->
                  /\ X.shape[1] = Len(d.rows) - (IF cfg.dataset = "ecg" THEN 1 ELSE 0)
                  /\ X.shape[2] <= Len(d.rows[1])
                  /\ X.shape[3] = 1
             [] OTHER -> FALSE

C6_ValidationUsesTrainingStats ==
    (built # None /\ built[1].split = "val") =>
        LET ds == built[1].dataset
        IN  /\ <<ds.feature_mean, ds.feature_std>> = feature_mean_and_std(Self, cfg)
            /\ ds.feature_mean = TrainSet(Self, cfg).feature_mean
            /\ ds.feature_std = TrainSet(Self, cfg).feature_std

\* A validation loader on transformed data whose own mean differs from the
\* training mean it was given.
C6_Witness ==
    /\ built # None
    /\ built[1].split = "val"
    /\ cfg.fourier_transform
    /\ Rank(X_train) = 3
    /\ X_train.shape[1] >= 2
    /\ MeanDim0(built[1].dataset.X) # built[1].dataset.feature_mean

\* C7 as stated: the training loader shuffles and standardizes iff the flag is
\* set; the validation loader does not shuffle and standardizes iff the flag is
\* set; the test loader does not shuffle and standardizes exactly when the
\* module's standardize flag requests it.
C7_TestFollowsFlag ==
    built # None =>
        LET ds == built[1].dataset
        IN  /\ built[1].shuffle = (built[1].split = "train")
            /\ ds.standardize = cfg.standardize

\* C7, amended: the training loader shuffles and standardizes iff the flag is
\* set; the validation loader does not shuffle and standardizes iff the flag is
\* set, with the training statistics; the test loader does not shuffle and
\* never standardizes, whatever the module's standardize flag.
C7_LoaderPolicies ==
    built # None =>
        LET ds == built[1].dataset
        IN  CASE built[1].split = "train" ->
                   built[1].shuffle /\ ds.standardize = cfg.standardize
              [] built[1].split = "val" ->
                   /\ ~built[1].shuffle
                   /\ ds.standardize = cfg.standardize
                   /\ ds.feature_mean = TrainSet(Self, cfg).feature_mean
                   /\ ds.feature_std = TrainSet(Self, cfg).feature_std
              [] built[1].split = "test" ->
                   ~built[1].shuffle /\ ~ds.standardize

\* A test loader built by a module whose standardize flag is set.
C7_Witness ==
    /\ built # None
    /\ built[1].split = "test"
    /\ cfg.standardize
    /\ ~built[1].dataset.standardize

\* The indices below C that are not in {4, 5, 6, 7, 9}, and the j-th of them
\* in increasing order (j from 1).
RemainingBelow(C) == {i \in 0..(C - 1) : i \notin {4, 5, 6, 7, 9}}
NthRemaining(C, j) ==
    CHOOSE k \in RemainingBelow(C) :
        Cardinality({i \in RemainingBelow(C) : i < k}) = j - 1
\* X holds, in order, the channels of `from` listed by RemainingBelow(C).
KeepsRemaining(X, from, C) ==
    /\ X.shape[3] = Cardinality(RemainingBelow(C))
    /\ \A n \in 1..X.shape[1] : \A t \in 1..X.shape[2] : \A j \in 1..X.shape[3] :
          X.data[n][t][j] = from.data[n][t][NthRemaining(C, j) + 1]

\* C8 as stated: the droughts pruning removes exactly the channels 4, 5, 6, 7
\* and 9 from both tensors, so each keeps its channel count minus five, the
\* kept channels being the remaining ones in their original order.
C8_FiveRemoved ==
    (last.op = "setup" /\ last.outcome = "ok" /\ cfg.dataset = "droughts") =>
        LET tr == Load(fs, TrainPath(cfg))
            te == Load(fs, TestPath(cfg))
        IN  /\ X_train.shape[3] = tr.shape[3] - 5
            /\ X_test.shape[3] = te.shape[3] - 5
            /\ KeepsRemaining(X_train, tr, tr.shape[3])
            /\ KeepsRemaining(X_test, te, te.shape[3])

\* C8, amended: the droughts pruning keeps, in both tensors, the channels whose
\* index is below X_train's channel count C and not in {4, 5, 6, 7, 9}, in
\* their original order: the resulting channel count is C - 5 when C >= 10 and
\* C minus the number of those indices below C otherwise.
C8_DroughtsPruning ==
    (last.op = "setup" /\ last.outcome = "ok" /\ cfg.dataset = "droughts") =>
        LET tr == Load(fs, TrainPath(cfg))
            te == Load(fs, TestPath(cfg))
            C == tr.shape[3]
        IN  /\ KeepsRemaining(X_train, tr, C)
            /\ KeepsRemaining(X_test, te, C)
            /\ C >= 10 => (X_train.shape[3] = C - 5 /\ X_test.shape[3] = C - 5)

\* A droughts setup that returned pruned year-long sequences of eleven channels.
C8_Witness ==
    /\ last.op = "setup"
    /\ last.outcome = "ok"
    /\ cfg.dataset = "droughts"
    /\ Load(fs, TrainPath(cfg)).shape = <<1, DROUGHTS_PERIOD, 11>>
    /\ X_train.shape = <<1, DROUGHTS_PERIOD, 6>>

\* C9: for the synthetic adapter with max_len = L and num_samples = N,
\* download_data writes N training and N test rows of length L, and a setup
\* that returns yields tensors of shape (N, L, 1) without labels, whatever
\* prepare_data or setup calls preceded it on the same data directory.
C9_SyntheticShapes ==
    cfg.dataset = "synthetic" =>
        /\ (last.op = "prepare_data" /\ last.download /\ last.outcome = "ok") =>
              \A path \in {TrainPath(cfg), TestPath(cfg)} :
                 /\ Exists(fs, path)
                 /\ Len(Read(fs, path).rows) = cfg.num_samples
                 /\ \A n \in 1..cfg.num_samples :
                       Len(Read(fs, path).rows[n]) = cfg.max_len
        /\ (last.op = "setup" /\ last.outcome = "ok") =>
              /\ X_train.shape = <<cfg.num_samples, cfg.max_len, 1>>
              /\ X_test.shape = <<cfg.num_samples, cfg.max_len, 1>>
              /\ y_train = None
              /\ y_test = None

\* The tensor the statistics of the dataset built last are computed from.
RefOfBuilt ==
    IF built[1].split # "val" THEN built[1].dataset.X
    ELSE IF cfg.fourier_transform THEN dft(X_train)
    ELSE X_train

\* m is the mean over the samples of entry (t, c) of ref.
IsMeanOf(m, ref, t, c) ==
    /\ m[2] > 0
    /\ m[1] * ref.shape[1] = m[2] * SumOver(ref, t, c)
\* v is the unbiased variance over the samples of entry (t, c) of ref.
IsVarOf(v, ref, t, c) ==
    LET N == ref.shape[1]
    IN  IF N < 2 THEN v = NaN
        ELSE /\ v[2] > 0
             /\ v[1] * N * (N - 1)
                  = v[2] * (N * SquaresOver(ref, t, c)
                              - SumOver(ref, t, c) * SumOver(ref, t, c))
\* q is the signed square of (x - m) / sqrt(v).
IsStandardized(q, x, m, v) ==
    IF m = NaN \/ v = NaN THEN q = NaN
    ELSE IF v[1] = 0 THEN q[2] = 0
    ELSE LET d == x * m[2] - m[1]
         IN  /\ q[2] > 0
             /\ q[1] * m[2] * m[2] * v[1] = q[2] * Sign(d) * d * d * v[2]

C11_SampleIsCopy ==
    /\ (last.op = "__getitem__" /\ item # None /\ ~built[1].dataset.standardize) =>
           item[1].data.X.data = built[1].dataset.X.data[item[1].index + 1]
    /\ last.op = "modify_in_place" =>
           (~last.stored_changed /\ ~last.access_changed)

====
